---- MODULE Spec2Model ----
(***************************************************************************)
(* Model of pysam/__init__.py: the SamtoolsDispatcher adapter, its error   *)
(* classification of the executor's (retval, stderr, stdout) triple, its   *)
(* parser selection, its retained stderr, and the module-level loop that   *)
(* builds one dispatcher per entry of SAMTOOLS_DISPATCH.                    *)
(*                                                                         *)
(* Text is modelled by TLA+ strings, lists and tuples by sequences.  The   *)
(* executor csamtools._samtools_dispatch and the parser functions are      *)
(* external: the executor's answer is an input of each action, and the     *)
(* application parser(stdout) is recorded by the parser's name.            *)
(***************************************************************************)
EXTENDS Integers, Sequences, FiniteSets, TLC

VARIABLES
    dispatch,   \* instance -> self.dispatch
    parsers,    \* instance -> self.parsers
    stderr,     \* instance -> self.stderr
    last,       \* the most recent completed operation, its inputs and its outcome
    recent,     \* instance -> the executor's answer to its most recent __call__
    pc,         \* thread -> position inside __call__ / getMessages
    loc,        \* thread -> the locals retval, stderr, stdout of its __call__
    got         \* thread -> what its getMessages returned

vars == <<dispatch, parsers, stderr, last, recent, pc, loc, got>>

(***************************************************************************)
(* Bounds of the model.                                                    *)
(***************************************************************************)
MaxLines == 2       \* longest stderr list the executor returns in Spec

(***************************************************************************)
(* Python values.                                                          *)
(***************************************************************************)
\* parsers=None, and a parsers list [(options, parser), ...]
None == [none |-> TRUE]
List(bindings) == [none |-> FALSE, list |-> bindings]

\* truth value of self.parsers: None and the empty list are false
ParsersTruthy(p) == (~p.none) /\ Len(p.list) > 0

\* kwargs.get("raw"): a missing key gives None, which is false
KwRaw(kwargs) == ("raw" \in DOMAIN kwargs) /\ kwargs["raw"]

\* x.startswith(p)
StartsWith(x, p) == Len(x) >= Len(p) /\ SubSeq(x, 1, Len(p)) = p

\* sep.join(lines)
RECURSIVE Join(_, _)
Join(sep, lines) ==
    IF Len(lines) = 0 THEN ""
    ELSE IF Len(lines) = 1 THEN lines[1]
    ELSE lines[1] \o sep \o Join(sep, Tail(lines))

\* option in args
InArgs(option, args) == \E i \in 1..Len(args) : args[i] = option

(***************************************************************************)
(* SamtoolsDispatcher.__call__                                             *)
(***************************************************************************)
BenignPrefixes ==
    << "[sam_header_read2]",
       "[bam_index_load]",
       "[bam_sort_core]",
       "[samopen] SAM header is present" >>

\* variant: a line is benign only when it equals a prefix
IsBenignExact(x) == \E i \in 1..Len(BenignPrefixes) : x = BenignPrefixes[i]

IsBenign(x) == \E i \in 1..Len(BenignPrefixes) : StartsWith(x, BenignPrefixes[i])

\* variant: the list is kept whole as soon as one of its lines is not benign
SuspiciousAllOrNothing(lines) ==
    IF \E i \in 1..Len(lines) : ~IsBenign(lines[i]) THEN lines ELSE << >>

\* the list comprehension of lines 58-63
Suspicious(lines) == SelectSeq(lines, LAMBDA x : ~IsBenign(x))

\* the message of the SamtoolsError of line 51
ExitMessage(retval, lines) ==
    "csamtools returned with error " \o ToString(retval) \o ": " \o Join("\n", lines)

\* the for/else of lines 69-72: every option of the binding is in args
BindingMatches(options, args) ==
    \A i \in 1..Len(options) : InArgs(options[i], args)

\* variant: the last matching binding wins
RECURSIVE LastMatch(_, _)
LastMatch(bindings, args) ==
    IF Len(bindings) = 0 THEN ""
    ELSE IF LastMatch(Tail(bindings), args) # "" THEN LastMatch(Tail(bindings), args)
    ELSE IF BindingMatches(bindings[1][1], args) THEN bindings[1][2]
    ELSE ""

\* the loop of lines 68-72: the name of the first matching binding's parser,
\* "" when the loop ends without a return
RECURSIVE FirstMatch(_, _)
FirstMatch(bindings, args) ==
    IF Len(bindings) = 0 THEN ""
    ELSE IF BindingMatches(bindings[1][1], args) THEN bindings[1][2]
    ELSE FirstMatch(Tail(bindings), args)

Raise(msg)       == [kind |-> "raise",  value |-> msg, parser |-> ""]
Return(text)     == [kind |-> "return", value |-> text, parser |-> ""]
\* the value parser(stdout) of the parser named p
Parsed(p, text)  == [kind |-> "return", value |-> text, parser |-> p]

\* variant: the raw keyword is not consulted
ParseStdoutIgnoringRaw(p, args, kwargs, out) ==
    IF out # "" /\ ParsersTruthy(p)
    THEN LET name == FirstMatch(p.list, args)
         IN  IF name # "" THEN Parsed(name, out) ELSE Return(out)
    ELSE Return(out)

\* lines 66-74: what __call__ returns once no error was raised
ParseStdout(p, args, kwargs, out) ==
    IF (~KwRaw(kwargs)) /\ out # "" /\ ParsersTruthy(p)
    THEN LET name == FirstMatch(p.list, args)
         IN  IF name # "" THEN Parsed(name, out) ELSE Return(out)
    ELSE Return(out)

\* variant: the exit code is tested after the stderr filter
CallResultFilterFirst(p, args, kwargs, retval, err, out) ==
    IF Len(Suspicious(err)) > 0 THEN Raise(Join("\n", Suspicious(err)))
    ELSE IF retval # 0 THEN Raise(ExitMessage(retval, err))
    ELSE ParseStdout(p, args, kwargs, out)

\* lines 50-74: the outcome of __call__ for the executor's answer
CallResult(p, args, kwargs, retval, err, out) ==
    IF retval # 0 THEN Raise(ExitMessage(retval, err))
    ELSE IF Len(Suspicious(err)) > 0 THEN Raise(Join("\n", Suspicious(err)))
    ELSE ParseStdout(p, args, kwargs, out)

\* variant: self.stderr is assigned before the exit code is tested
StoreBeforeCheck(st, d, retval, err) == [st EXCEPT ![d] = err]

\* variant: the assignment goes to a class attribute shared by the instances
StoreOnClass(st, d, retval, err) ==
    IF retval # 0 THEN st ELSE [x \in DOMAIN st |-> err]

\* variant: self.stderr is assigned after the filter of lines 58-63
StoreSuspiciousOnly(st, d, retval, err) ==
    IF retval # 0 THEN st ELSE [st EXCEPT ![d] = Suspicious(err)]

\* line 52, reached only when line 51 did not raise: self.stderr = stderr
StoreStderr(st, d, retval, err) ==
    IF retval # 0 THEN st ELSE [st EXCEPT ![d] = err]

\* the arguments of csamtools._samtools_dispatch at line 50 and at line 81
ExecCall(cmd, args) == << cmd, args >>
ExecUsage(cmd)      == << cmd >>

\* lines 79-82: usage() joins the stderr lines with the empty string
UsageResult(retval, err, out) == Return(Join("", err))

\* variant: getMessages filters what it returns
GetMessagesFiltered(st, d) == Suspicious(st[d])

\* lines 76-77
GetMessagesResult(st, d) == st[d]

(***************************************************************************)
(* Inputs: what callers pass and what the executor answers.                *)
(***************************************************************************)
Lines ==
    { "[bam_index_load] foo",
      "error: truncated file",
      "[samopen] no @SQ lines in the header." }

RECURSIVE SeqsUpTo(_, _)
SeqsUpTo(S, n) ==
    IF n = 0 THEN { <<>> }
    ELSE LET shorter == SeqsUpTo(S, n - 1)
         IN  shorter \cup { Append(s, x) : s \in shorter, x \in S }

StderrLists == SeqsUpTo(Lines, MaxLines)
Stdouts     == { "", "120 total\n" }
ArgLists    == { <<>>, <<"in.bam">>, <<"-c", "in.bam">>, <<"-s", "-c", "in.bam">> }
NoKwargs    == [k \in {} |-> TRUE]
Kwargs      == { NoKwargs, [raw |-> TRUE], [raw |-> FALSE] }

\* parser lists a dispatcher may be constructed with; the first is the one of
\* the table's commented "pileup" entry
ParserLists ==
    { None,
      List(<< >>),
      List(<< << <<"-c">>, "Pileup.iterate" >> >>),
      List(<< << <<"-c">>, "B1" >>, << << >>, "B2" >> >>),
      List(<< << << >>, "B2" >>, << <<"-c">>, "B1" >> >>),
      List(<< << <<"-c", "-s">>, "B3" >>, << <<"-c">>, "B1" >> >>) }

\* the entries of SAMTOOLS_DISPATCH the model builds: key -> (cmd, parser)
SAMTOOLS_DISPATCH ==
    [key \in {"view", "samimport"} |->
        IF key = "samimport" THEN << "import", None >> ELSE << key, None >>]

\* executor answers with exit code 0 and benign stderr only
BenignOutcomes ==
    { [retval |-> 0, err |-> << >>, out |-> "120 total\n"],
      [retval |-> 0, err |-> << "[bam_index_load] foo" >>, out |-> "120 total\n"],
      [retval |-> 0, out |-> "",
       err |-> << "[sam_header_read2] 2 sequences loaded.",
                  "[bam_sort_core] merging from 2 files...",
                  "[samopen] SAM header is present: 2 sequences." >>] }

\* exit code 0 and a stderr line that is not benign
SuspiciousOutcomes ==
    { [retval |-> 0, out |-> "120 total\n",
       err |-> << "[bam_index_load] foo", "error: truncated file" >>],
      [retval |-> 0, out |-> "",
       err |-> << "[samopen] no @SQ lines in the header.", "[bam_index_load] foo",
                  "error: truncated file" >>] }

\* a non-zero exit code
FailedOutcomes ==
    { [retval |-> 1, err |-> << "error: truncated file" >>, out |-> ""],
      [retval |-> 2, err |-> << >>, out |-> ""],
      [retval |-> -1, err |-> << "[bam_index_load] foo" >>, out |-> "120 total\n"],
      [retval |-> 1, out |-> "",
       err |-> << "[bam_index_load] foo", "error: truncated file",
                  "[bam_sort_core] merging from 2 files..." >>] }

Outcomes == BenignOutcomes \cup SuspiciousOutcomes \cup FailedOutcomes

(***************************************************************************)
(* State after construction.                                               *)
(***************************************************************************)
NoOp ==
    [op |-> "init", self |-> "", args |-> << >>, kwargs |-> NoKwargs,
     exec |-> << >>, retval |-> 0, err |-> << >>, out |-> "",
     result |-> Return(""), msgs |-> << >>]

NotCalled == [called |-> FALSE, retval |-> 0, err |-> << >>]

\* SamtoolsDispatcher.__init__ for every instance of I
Construct(I, cmd, p) ==
    /\ dispatch = [d \in I |-> cmd[d]]
    /\ parsers  = [d \in I |-> p[d]]
    /\ stderr   = [d \in I |-> << >>]
    /\ recent   = [d \in I |-> NotCalled]
    /\ last     = NoOp

NoThreads ==
    /\ pc  = [t \in {} |-> ""]
    /\ loc = [t \in {} |-> NotCalled]
    /\ got = [t \in {} |-> << >>]

\* one dispatcher constructed by a caller with some parser list
Init ==
    /\ \E p \in ParserLists : Construct({"pileup"}, [d \in {"pileup"} |-> "pileup"],
                                        [d \in {"pileup"} |-> p])
    /\ NoThreads

\* the loop of lines 116-118 over the table
InitRegistry ==
    /\ Construct(DOMAIN SAMTOOLS_DISPATCH,
                 [d \in DOMAIN SAMTOOLS_DISPATCH |-> SAMTOOLS_DISPATCH[d][1]],
                 [d \in DOMAIN SAMTOOLS_DISPATCH |-> SAMTOOLS_DISPATCH[d][2]])
    /\ NoThreads

(***************************************************************************)
(* The operations of a dispatcher, each a whole method call.               *)
(***************************************************************************)
Call(d, args, kwargs, retval, err, out) ==
    /\ stderr' = StoreStderr(stderr, d, retval, err)
    /\ recent' = [recent EXCEPT ![d] = [called |-> TRUE, retval |-> retval, err |-> err]]
    /\ last'   = [op |-> "call", self |-> d, args |-> args, kwargs |-> kwargs,
                   exec |-> ExecCall(dispatch[d], args),
                   retval |-> retval, err |-> err, out |-> out,
                   result |-> CallResult(parsers[d], args, kwargs, retval, err, out),
                   msgs |-> << >>]
    /\ UNCHANGED <<dispatch, parsers, pc, loc, got>>

GetMessages(d) ==
    /\ last' = [NoOp EXCEPT !.op = "getMessages", !.self = d,
                             !.msgs = GetMessagesResult(stderr, d)]
    /\ UNCHANGED <<dispatch, parsers, stderr, recent, pc, loc, got>>

\* variant: usage() keeps the stderr it received, as __call__ does
UsageStoreLikeCall(st, d, retval, err) == [st EXCEPT ![d] = err]

\* the state usage() leaves in self.stderr
UsageStore(st, d, retval, err) == st

Usage(d, retval, err, out) ==
    /\ stderr' = UsageStore(stderr, d, retval, err)
    /\ last' = [NoOp EXCEPT !.op = "usage", !.self = d,
                             !.exec = ExecUsage(dispatch[d]), !.retval = retval,
                             !.err = err, !.out = out,
                             !.result = UsageResult(retval, err, out)]
    /\ UNCHANGED <<dispatch, parsers, recent, pc, loc, got>>

Instances == DOMAIN stderr

Next ==
    \/ \E d \in Instances, err \in StderrLists, out \in Stdouts :
            Call(d, << "-c", "in.bam" >>, NoKwargs, 0, err, out)
    \/ \E d \in Instances, o \in Outcomes, args \in ArgLists, kwargs \in Kwargs :
            Call(d, args, kwargs, o.retval, o.err, o.out)
    \/ \E d \in Instances : GetMessages(d)
    \/ \E d \in Instances, o \in Outcomes : Usage(d, o.retval, o.err, o.out)

Spec == Init /\ [][Next]_vars

NextRegistry ==
    \/ \E d \in Instances, o \in Outcomes :
            Call(d, << "in.bam" >>, NoKwargs, o.retval, o.err, o.out)
    \/ \E d \in Instances : GetMessages(d)
    \/ \E d \in Instances, o \in Outcomes : Usage(d, o.retval, o.err, o.out)

SpecRegistry == InitRegistry /\ [][NextRegistry]_vars

(***************************************************************************)
(* Threads sharing one dispatcher.  __call__ takes no lock, so a thread    *)
(* switch can fall between any two of its statements; each thread calls    *)
(* the dispatcher and, when the call returned, reads getMessages().        *)
(***************************************************************************)
Threads == { "t1", "t2" }

NoLocals == [retval |-> 0, err |-> << >>, out |-> ""]

InitThreads ==
    /\ Construct({"view"}, [d \in {"view"} |-> SAMTOOLS_DISPATCH[d][1]],
                          [d \in {"view"} |-> SAMTOOLS_DISPATCH[d][2]])
    /\ \E T \in { {"t1"}, Threads } :
          /\ pc  = [t \in T |-> "idle"]
          /\ loc = [t \in T |-> NoLocals]
          /\ got = [t \in T |-> << >>]

\* line 50: the executor's answer is bound to the locals
ThreadDispatch(t, d, o) ==
    /\ pc[t] = "idle"
    /\ loc' = [loc EXCEPT ![t] = o]
    /\ recent' = [recent EXCEPT ![d] = [called |-> TRUE, retval |-> o.retval, err |-> o.err]]
    /\ pc' = [pc EXCEPT ![t] = "line51"]
    /\ UNCHANGED <<dispatch, parsers, stderr, last, got>>

\* line 51
ThreadCheck(t) ==
    /\ pc[t] = "line51"
    /\ pc' = [pc EXCEPT ![t] = IF loc[t].retval # 0 THEN "raised" ELSE "line52"]
    /\ UNCHANGED <<dispatch, parsers, stderr, last, recent, loc, got>>

\* line 52
ThreadStore(t, d) ==
    /\ pc[t] = "line52"
    /\ stderr' = StoreStderr(stderr, d, loc[t].retval, loc[t].err)
    /\ pc' = [pc EXCEPT ![t] = "line58"]
    /\ UNCHANGED <<dispatch, parsers, last, recent, loc, got>>

\* lines 58-74, which touch locals only
ThreadFinish(t, d) ==
    /\ pc[t] = "line58"
    /\ pc' = [pc EXCEPT ![t] =
                IF CallResult(parsers[d], << >>, NoKwargs, loc[t].retval,
                              loc[t].err, loc[t].out).kind = "raise"
                THEN "raised" ELSE "returned"]
    /\ UNCHANGED <<dispatch, parsers, stderr, last, recent, loc, got>>

\* lines 76-77, called by the thread whose __call__ returned
ThreadGetMessages(t, d) ==
    /\ pc[t] = "returned"
    /\ got' = [got EXCEPT ![t] = GetMessagesResult(stderr, d)]
    /\ pc' = [pc EXCEPT ![t] = "done"]
    /\ UNCHANGED <<dispatch, parsers, stderr, last, recent, loc>>

\* the thread goes on to its next call
ThreadAgain(t) ==
    /\ pc[t] \in { "done", "raised" }
    /\ pc' = [pc EXCEPT ![t] = "idle"]
    /\ UNCHANGED <<dispatch, parsers, stderr, last, recent, loc, got>>

NextThreads ==
    \/ \E t \in DOMAIN pc, d \in Instances, o \in Outcomes : ThreadDispatch(t, d, o)
    \/ \E t \in DOMAIN pc : ThreadCheck(t)
    \/ \E t \in DOMAIN pc, d \in Instances : ThreadStore(t, d)
    \/ \E t \in DOMAIN pc, d \in Instances : ThreadFinish(t, d)
    \/ \E t \in DOMAIN pc, d \in Instances : ThreadGetMessages(t, d)
    \/ \E t \in DOMAIN pc : ThreadAgain(t)

SpecThreads == InitThreads /\ [][NextThreads]_vars

(***************************************************************************)
(* Properties.  Their vocabulary is defined here, apart from the model.    *)
(***************************************************************************)
Whitelist ==
    { "[sam_header_read2]", "[bam_index_load]", "[bam_sort_core]",
      "[samopen] SAM header is present" }

Whitelisted(x) == \E w \in Whitelist : Len(w) <= Len(x) /\ SubSeq(x, 1, Len(w)) = w

\* the lines of a list that are not whitelisted, in their order
RECURSIVE NonWhitelisted(_)
NonWhitelisted(lines) ==
    IF lines = << >> THEN << >>
    ELSE LET n == Len(lines)
             front == NonWhitelisted(SubSeq(lines, 1, n - 1))
         IN  IF Whitelisted(lines[n]) THEN front ELSE Append(front, lines[n])

\* the lines of a list, each followed by sep except the last
RECURSIVE Glue(_, _)
Glue(lines, sep) ==
    IF lines = << >> THEN ""
    ELSE LET n == Len(lines)
         IN  IF n = 1 THEN lines[1]
             ELSE Glue(SubSeq(lines, 1, n - 1), sep) \o sep \o lines[n]

Contains(text, part) ==
    \E i \in 1..(Len(text) - Len(part) + 1) : SubSeq(text, i, i + Len(part) - 1) = part

SetOf(seq) == { seq[i] : i \in 1..Len(seq) }

NonEmptyList(p) == (~p.none) /\ p.list # << >>

RawSet(kwargs) == \E k \in DOMAIN kwargs : k = "raw" /\ kwargs[k]

\* C1: a __call__ whose executor returned a non-zero exit code raises, applies
\* no parser, and its message holds the exit code and all stderr lines, in
\* order, whitelisted ones included.
C1_NonZeroExitRaises ==
    (last.op = "call" /\ last.retval # 0) =>
        /\ last.result.kind = "raise"
        /\ last.result.parser = ""
        /\ Contains(last.result.value, ToString(last.retval))
        /\ Contains(last.result.value, Glue(last.err, "\n"))

C1_Witness ==
    /\ last.op = "call" /\ last.retval # 0
    /\ \E i, j \in 1..Len(last.err) : Whitelisted(last.err[i]) /\ ~Whitelisted(last.err[j])
    /\ RawSet(last.kwargs)
    /\ NonEmptyList(parsers[last.self])
    /\ last.result.kind = "raise"

\* C2: a __call__ with exit code 0 and a stderr line that is not whitelisted
\* raises, and its message is exactly the non-whitelisted lines, in their
\* order, joined by newlines; no parser is applied.
C2_SuspiciousLinesRaise ==
    (last.op = "call" /\ last.retval = 0 /\ NonWhitelisted(last.err) # << >>) =>
        /\ last.result.kind = "raise"
        /\ last.result.parser = ""
        /\ last.result.value = Glue(NonWhitelisted(last.err), "\n")

C2_Witness ==
    /\ last.op = "call" /\ last.retval = 0
    /\ Len(NonWhitelisted(last.err)) = 2
    /\ NonWhitelisted(last.err)[1] # NonWhitelisted(last.err)[2]
    /\ Len(last.err) > 2
    /\ last.result.kind = "raise"

\* C3: a __call__ with exit code 0 whose stderr lines are all whitelisted
\* never raises and returns stdout, unchanged or through a registered parser;
\* (0, ["[bam_index_load] foo"], "120 total\n") with no parsers returns
\* "120 total\n".
C3_BenignStderrReturns ==
    (last.op = "call" /\ last.retval = 0
        /\ \A i \in 1..Len(last.err) : Whitelisted(last.err[i])) =>
        /\ last.result.kind = "return"
        /\ last.result.value = last.out
        /\ \/ last.result.parser = ""
           \/ /\ NonEmptyList(parsers[last.self])
              /\ \E b \in SetOf(parsers[last.self].list) : b[2] = last.result.parser
        /\ (last.err = << "[bam_index_load] foo" >> /\ last.out = "120 total\n"
                /\ parsers[last.self] = None)
              => last.result = [kind |-> "return", value |-> "120 total\n", parser |-> ""]

C3_Witness ==
    /\ last.op = "call" /\ last.retval = 0
    /\ last.err = << "[bam_index_load] foo" >> /\ last.out = "120 total\n"
    /\ parsers[last.self] = None
    /\ last.result.kind = "return" /\ last.result.value = "120 total\n"

\* C4: in a __call__ that does not raise, with raw unset, stdout not empty
\* and a non-empty parser list, the parser applied is the one of the first
\* binding, in registration order, whose options are all among the
\* positional arguments; without such a binding stdout is returned as is.
\* With [B1 requires "-c", B2 requires nothing], "-c" selects B1 and its
\* absence selects B2.
C4_FirstMatchingParser ==
    (last.op = "call" /\ last.result.kind = "return" /\ ~RawSet(last.kwargs)
        /\ last.out # "" /\ NonEmptyList(parsers[last.self])) =>
        LET bs == parsers[last.self].list
            matching == { i \in 1..Len(bs) : SetOf(bs[i][1]) \subseteq SetOf(last.args) }
        IN  /\ last.result.value = last.out
            /\ IF matching = {} THEN last.result.parser = ""
               ELSE \E i \in matching :
                      /\ \A j \in matching : i <= j
                      /\ last.result.parser = bs[i][2]
            /\ (bs = << << <<"-c">>, "B1" >>, << << >>, "B2" >> >>) =>
                  last.result.parser = IF "-c" \in SetOf(last.args) THEN "B1" ELSE "B2"

C4_Witness ==
    /\ last.op = "call" /\ last.result.kind = "return"
    /\ ~RawSet(last.kwargs)
    /\ NonEmptyList(parsers[last.self])
    /\ parsers[last.self].list = << << <<"-c">>, "B1" >>, << << >>, "B2" >> >>
    /\ "-c" \in SetOf(last.args)
    /\ last.result.parser = "B1"

\* C5: a __call__ that does not raise returns stdout as is, applying no
\* parser, when raw is set, or stdout is empty, or the dispatcher has no
\* parsers (None or an empty list), whatever its bindings would match.
C5_NoParserApplied ==
    (last.op = "call" /\ last.result.kind = "return"
        /\ (RawSet(last.kwargs) \/ last.out = "" \/ ~NonEmptyList(parsers[last.self]))) =>
        last.result = [kind |-> "return", value |-> last.out, parser |-> ""]

C5_Witness ==
    /\ last.op = "call" /\ last.result.kind = "return"
    /\ RawSet(last.kwargs) /\ last.out # ""
    /\ NonEmptyList(parsers[last.self])
    /\ \E b \in SetOf(parsers[last.self].list) : SetOf(b[1]) \subseteq SetOf(last.args)
    /\ last.result.parser = ""

\* C6 as claimed: after any __call__, whatever its outcome, self.stderr is the
\* stderr the executor returned to that call.
C6_OverwrittenOnEveryCall ==
    \A d \in Instances : recent[d].called => stderr[d] = recent[d].err

\* C6: a __call__ whose executor returned exit code 0 overwrites self.stderr
\* with the stderr of that call, whether it then returns or raises; a
\* __call__ whose executor returned a non-zero exit code leaves self.stderr as
\* it was.
C6_OverwrittenOnExitZero ==
    [][ last'.op = "call" =>
          IF last'.retval = 0
          THEN stderr'[last'.self] = last'.err
          ELSE stderr'[last'.self] = stderr[last'.self] ]_vars

C6_Witness ==
    /\ last.op = "call" /\ last.retval # 0
    /\ stderr[last.self] # << >>
    /\ stderr[last.self] # last.err

\* C7: getMessages returns the whole stderr list of the most recent __call__
\* of its dispatcher when that call's exit code was 0, whitelisted lines
\* included, and the empty list before any __call__.
C7_GetMessagesUnfiltered ==
    (last.op = "getMessages") =>
        /\ (~recent[last.self].called) => last.msgs = << >>
        /\ (recent[last.self].called /\ recent[last.self].retval = 0)
              => last.msgs = recent[last.self].err

C7_Witness ==
    /\ last.op = "getMessages"
    /\ recent[last.self].called /\ recent[last.self].retval = 0
    /\ \E i, j \in 1..Len(last.msgs) : Whitelisted(last.msgs[i]) /\ ~Whitelisted(last.msgs[j])
    /\ last.msgs = recent[last.self].err

\* C8: an operation on one dispatcher leaves the stderr, the command and the
\* parsers of every other dispatcher unchanged, and its own command and
\* parsers too.
C8_InstancesShareNothing ==
    [][ \A d \in Instances :
          /\ dispatch'[d] = dispatch[d]
          /\ parsers'[d] = parsers[d]
          /\ (d # last'.self) => stderr'[d] = stderr[d] ]_vars

C8_Witness ==
    /\ last.op = "call"
    /\ \E d, e \in Instances :
          /\ d # e /\ dispatch[d] # dispatch[e]
          /\ stderr[d] # << >> /\ stderr[e] # << >> /\ stderr[d] # stderr[e]

\* C9: usage() calls the executor with the command alone, returns the stderr
\* lines joined without separator and without filtering, never raises
\* whatever the exit code and the lines, and leaves self.stderr unchanged.
C9_UsageIsPureQuery ==
    [][ last'.op = "usage" =>
          /\ last'.exec = << dispatch[last'.self] >>
          /\ last'.result.kind = "return"
          /\ last'.result.value = Glue(last'.err, "")
          /\ stderr' = stderr ]_vars

C9_Witness ==
    /\ last.op = "usage" /\ last.retval # 0
    /\ \E j \in 1..Len(last.err) : ~Whitelisted(last.err[j])
    /\ stderr[last.self] # << >>
    /\ stderr[last.self] # last.err
    /\ last.result.kind = "return"

\* C10: with a single thread, getMessages() read right after the thread's own
\* returned __call__ is the stderr of that call; with two threads on one
\* dispatcher it can be the stderr of the other thread's call.
C10_SingleThreadReadsOwn ==
    \A t \in DOMAIN pc :
        (Cardinality(DOMAIN pc) = 1 /\ pc[t] = "done") => got[t] = loc[t].err

C10_Witness ==
    \E t, u \in DOMAIN pc :
        /\ t # u /\ pc[t] = "done"
        /\ got[t] # loc[t].err
        /\ got[t] = loc[u].err

====
